---- MODULE Spec2Model ----
(***************************************************************************)
(* The two page scripts of the drug-design demo as one state machine.      *)
(*                                                                         *)
(*   basic     src/unnamed/part_000   create / test, text output panel     *)
(*   enhanced  src/script.js          three-step wizard, TensorFlow.js     *)
(*                                    dummy model, Chart.js charts         *)
(*                                                                         *)
(* A session is one page load.  Every registered click listener is an      *)
(* action; the enhanced test listener is async and is split at its single  *)
(* await (EnhancedTestClick up to the await, TrainDone from the             *)
(* resumption on).                                                         *)
(*                                                                         *)
(* Representation.                                                         *)
(*  - A string is the sequence of its UTF-16 code units (what split('')   *)
(*    and charCodeAt work on).                                             *)
(*  - null / undefined / "threw" is the empty sequence Null, a present     *)
(*    value v is <<v>>.                                                    *)
(*  - A Math.random() result is a fraction [n |-> k, d |-> res], k < res.  *)
(*  - An entry of the encoded tensor is the numerator of a fraction over   *)
(*    NormDivisor (code / 255).                                            *)
(*  - A Drug carries the fields later code reads back (structure,          *)
(*    description, sideEffects); the random display-only fields (name,     *)
(*    molWeight, logP), the random percentages of the basic test result    *)
(*    and the radar chart's random severity scores are rendered and never  *)
(*    read again, and are left out of the records.                         *)
(*  - The page markup and the TensorFlow.js / Chart.js libraries are not   *)
(*    part of the scripts.  What the scripts leave to them is stated where *)
(*    it is used (Init, tfUtilShuffle, modelPredict).                      *)
(***************************************************************************)
EXTENDS Integers, Sequences, FiniteSets, TLC

VARIABLES
    variant,          \* which script the page runs: "basic" or "enhanced"
    tfShuffleReturns, \* what the loaded tf.util.shuffle returns: "array" | "undefined"
    currentDrug,      \* let currentDrug
    model,            \* let model: 0 is null, k > 0 the k-th instance built
    step,             \* index of the .step element not hidden (showStep)
    testBtnDisabled,  \* testBtn.disabled
    spinnerHidden,    \* spinner carries class 'hidden'
    propertiesList,   \* what displayProperties last listed
    resultOutput,     \* resultOutput.textContent, as a sequence of segments
    barChart,         \* let barChart
    radarChart,       \* let radarChart
    pending,          \* test listeners suspended at `await buildAndTrainModel()`
    trainCalls,       \* number of buildAndTrainModel() invocations so far
    testsStarted,     \* number of test listener runs that passed the entry guard
    lastRun,          \* the listener run that produced this state
    shuffleIn,        \* SpecShuffle: the call under test
    shuffleOut        \* SpecShuffle: its outcome

vars == <<variant, tfShuffleReturns, currentDrug, model, step, testBtnDisabled,
          spinnerHidden, propertiesList, resultOutput, barChart, radarChart,
          pending, trainCalls, testsStarted, lastRun, shuffleIn, shuffleOut>>

-----------------------------------------------------------------------------
(* Bounds of the model *)

\* longest text typed into moleculeInput
MaxLen == 2
\* number of Math.random() streams a listener run may see (Stream)
RandRes == 2
\* resolution of the Math.random() draws enumerated in SpecShuffle
ShuffleRes == 6
\* cap on test listener runs per session
MaxTests == 2

(* Program constants *)

\* const maxLen = 10 in encodeMolecule
EncodeMaxLen == 10
\* str.charCodeAt(i) / 255
NormDivisor == 255
\* pickRandom([...], 3)
EnhancedTake == 3
\* shuffleArray(possibleEffects).slice(0, 2)
BasicTake == 2

Null == <<>>

\* the code units that can be typed: ' ' (32), 'a' (97), GREEK CAPITAL OMEGA (937)
Alphabet == {32, 97, 937}

\* code units String.prototype.trim strips (tab, line breaks, space, no-break space)
Whitespace == {9, 10, 11, 12, 13, 32, 160}

\* "-mol"
BasicSuffix == <<45, 109, 111, 108>>
\* "-MOL"
EnhancedSuffix == <<45, 77, 79, 76>>

BasicEffects == <<"Nausea", "Headache", "Dizziness", "Fatigue", "Dry mouth">>
EnhancedEffects ==
    <<"Nausea", "Headache", "Dizziness", "Fatigue", "Dry mouth", "Insomnia">>

EmptyInputAlert == "Please enter a molecule design."

RECURSIVE StringsUpTo(_)
StringsUpTo(n) ==
    IF n = 0 THEN {<<>>}
    ELSE StringsUpTo(n - 1) \cup
         {Append(s, c) : s \in {t \in StringsUpTo(n - 1) : Len(t) = n - 1}, c \in Alphabet}

\* the values moleculeInput.value can have when createBtn is clicked
Inputs == StringsUpTo(MaxLen)

Min(a, b) == IF a < b THEN a ELSE b

-----------------------------------------------------------------------------
(* Math.random *)

\* floor(r * m) for a fraction r
FloorMul(r, m) == (r.n * m) \div r.d

\* The i-th draw of stream s: the streams a listener run of the session
\* model can see.  Stream 0 is all zeros, the others vary from draw to draw.
Stream(s, len) == [i \in 1..len |-> [n |-> (s * i) % RandRes, d |-> RandRes]]

\* every sequence of len draws at resolution ShuffleRes
FineDraws(len) == [1..len -> {[n |-> k, d |-> ShuffleRes] : k \in 0..(ShuffleRes - 1)}]

-----------------------------------------------------------------------------
(* String helpers of the scripts *)

RECURSIVE TrimStart(_)
TrimStart(s) ==
    IF s # <<>> /\ Head(s) \in Whitespace THEN TrimStart(Tail(s)) ELSE s

RECURSIVE TrimEnd(_)
TrimEnd(s) ==
    IF s # <<>> /\ s[Len(s)] \in Whitespace
    THEN TrimEnd(SubSeq(s, 1, Len(s) - 1))
    ELSE s

\* moleculeInput.value.trim()
Trim(s) == TrimEnd(TrimStart(s))

ReverseMut(s) == s

\* input.split('').reverse().join('')
RECURSIVE Reverse(_)
Reverse(s) ==
    IF s = <<>> THEN <<>> ELSE Append(Reverse(Tail(s)), Head(s))

\* Array.prototype.slice(0, n)
Slice0(a, n) == SubSeq(a, 1, Min(n, Len(a)))

\* [array[i], array[j]] = [array[j], array[i]], i and j zero-based
Swap(array, i, j) ==
    [k \in 1..Len(array) |->
        IF k = i + 1 THEN array[j + 1]
        ELSE IF k = j + 1 THEN array[i + 1]
        ELSE array[k]]

\* for (let i = array.length - 1; i > 0; i--) { j = floor(random * (i + 1)); swap }
\* d is the index of the next draw of rs.
RECURSIVE ShuffleLoop(_, _, _, _)
ShuffleLoop(array, i, rs, d) ==
    IF i > 0
    THEN ShuffleLoop(Swap(array, i, FloorMul(rs[d], i + 1)), i - 1, rs, d + 1)
    ELSE array

shuffleArrayMut(arr, rs) ==
    LET shuffled == ShuffleLoop(arr, Len(arr) - 1, rs, 1)
    IN  [ret |-> <<shuffled>>, arr |-> shuffled]

\* shuffleArray of the basic script: ret is the returned array, arr the
\* caller's array after the call.
shuffleArray(arr, rs) ==
    LET array == arr
    IN  [ret |-> <<ShuffleLoop(array, Len(array) - 1, rs, 1)>>, arr |-> arr]

\* tf.util.shuffle(arr): TensorFlow.js library code.  It is a Fisher-Yates
\* shuffle of its argument in place.  The released library returns undefined;
\* pickRandom uses the return value as the shuffled array.  Both outcomes of
\* the call are kept: `returns` is "array" or "undefined".
tfUtilShuffle(arr, rs, returns) ==
    LET shuffled == ShuffleLoop(arr, Len(arr) - 1, rs, 1)
    IN  [ret |-> IF returns = "array" THEN <<shuffled>> ELSE Null, arr |-> shuffled]

\* pickRandom(arr, n): Null when `.slice` is read off undefined (TypeError)
pickRandom(arr, n, rs, returns) ==
    LET sh == tfUtilShuffle(arr, rs, returns)
    IN  [ret |-> IF sh.ret = Null THEN Null ELSE <<Slice0(sh.ret[1], n)>>,
         arr |-> sh.arr]

-----------------------------------------------------------------------------
(* Drug creation *)

\* simulateDrugCreation(input) of either script.  rs are the Math.random()
\* draws of the call, in call order: the name, then (enhanced) molWeight and
\* logP, then the shuffle.  Null when the call throws.
simulateDrugCreation(v, input, rs, returns) ==
    IF v = "basic"
    THEN <<[structure |-> Reverse(input) \o BasicSuffix, description |-> input]>>
    ELSE LET picked == pickRandom(EnhancedEffects, EnhancedTake,
                                  SubSeq(rs, 4, Len(rs)), returns).ret
         IN  IF picked = Null
             THEN Null
             ELSE <<[structure |-> Reverse(input) \o EnhancedSuffix,
                     sideEffects |-> picked[1]]>>

\* simulateDrugTesting(drug) of the basic script: the side effects drawn
simulateDrugTesting(drug, rs) ==
    [sideEffects |-> Slice0(shuffleArray(BasicEffects, SubSeq(rs, 3, Len(rs))).ret[1],
                            BasicTake)]

\* for (i = 0; i < Math.min(str.length, maxLen); i++) codes[i] = charCodeAt(i) / 255
RECURSIVE EncodeLoop(_, _, _)
EncodeLoop(codes, str, i) ==
    IF i < Min(Len(str), EncodeMaxLen)
    THEN EncodeLoop([codes EXCEPT ![i + 1] = str[i + 1]], str, i + 1)
    ELSE codes

\* encodeMolecule(str): the numerators over NormDivisor of the 1 x 10 tensor
encodeMolecule(str) == EncodeLoop([i \in 1..EncodeMaxLen |-> 0], str, 0)

\* model.predict(inputTensor).dataSync(): two sigmoid outputs of instance m on
\* the tensor; the values are the library's, the chart keeps which instance
\* predicted on which input.
modelPredict(m, tensor) == [model |-> m, input |-> tensor]

-----------------------------------------------------------------------------
(* The session *)

Run(handler, via, input, outcome, engine, alert) ==
    [handler |-> handler, via |-> via, input |-> input, outcome |-> outcome,
     engine |-> engine, alert |-> alert, blank |-> FALSE]

\* what the user typed held nothing but whitespace
IsBlank(raw) == \A i \in 1..Len(raw) : raw[i] \in Whitespace

\* the record of a createBtn listener run on the typed text raw
CreateRun(raw, outcome, alert) ==
    [Run("create", "control", Trim(raw), outcome, FALSE, alert)
        EXCEPT !.blank = IsBlank(raw)]

\* State after the script's top level has run.  testBtn.disabled is set by the
\* markup: the basic script enables the control after a create ("Now allow
\* testing"), the enhanced script never enables it, so it starts enabled.
SessionInit(v) ==
    /\ variant = v
    /\ tfShuffleReturns \in (IF v = "enhanced" THEN {"array", "undefined"} ELSE {"undefined"})
    /\ currentDrug = Null
    /\ model = 0
    /\ step = 0
    /\ testBtnDisabled = (v = "basic")
    /\ spinnerHidden = TRUE
    /\ propertiesList = Null
    /\ resultOutput = <<>>
    /\ barChart = Null
    /\ radarChart = Null
    /\ pending = {}
    /\ trainCalls = 0
    /\ testsStarted = 0
    /\ lastRun = Run("load", "none", <<>>, "loaded", FALSE, "")

Init ==
    /\ \E v \in {"basic", "enhanced"} : SessionInit(v)
    /\ shuffleIn = Null
    /\ shuffleOut = Null

\* How a click event reaches the test listener: through the control while it
\* is enabled; while it is disabled the control delivers nothing and only an
\* event dispatched by script runs the listener.
Delivered(via) == via = (IF testBtnDisabled THEN "script" ELSE "control")

session == <<variant, tfShuffleReturns>>
shuffleVars == <<shuffleIn, shuffleOut>>
enhancedOnly == <<model, step, spinnerHidden, propertiesList, barChart, radarChart,
                  pending, trainCalls>>

(* ------------------------------ basic ---------------------------------- *)

BasicCreateClickAppends(raw) ==
    LET input == Trim(raw)
        made == simulateDrugCreation("basic", input, Stream(0, 1), tfShuffleReturns)
    IN  /\ variant = "basic"
        /\ IF input = <<>>
           THEN /\ resultOutput' = <<[kind |-> "warning", text |-> <<>>]>>
                /\ lastRun' = CreateRun(raw, "EmptyInput", "")
                /\ UNCHANGED <<currentDrug, testBtnDisabled>>
           ELSE /\ currentDrug' = made
                /\ resultOutput' =
                       Append(resultOutput,
                              [kind |-> "drug",
                               text |-> <<made[1].structure, made[1].description>>])
                /\ testBtnDisabled' = FALSE
                /\ lastRun' = CreateRun(raw, "created", "")
        /\ UNCHANGED <<session, enhancedOnly, testsStarted, shuffleVars>>

\* createBtn click listener of the basic script
BasicCreateClick(raw) ==
    LET input == Trim(raw)
        made == simulateDrugCreation("basic", input, Stream(0, 1), tfShuffleReturns)
    IN  /\ variant = "basic"
        /\ IF input = <<>>
           THEN /\ resultOutput' = <<[kind |-> "warning", text |-> <<>>]>>
                /\ lastRun' = CreateRun(raw, "EmptyInput", "")
                /\ UNCHANGED <<currentDrug, testBtnDisabled>>
           ELSE /\ currentDrug' = made
                /\ resultOutput' =
                       <<[kind |-> "drug",
                          text |-> <<made[1].structure, made[1].description>>]>>
                /\ testBtnDisabled' = FALSE
                /\ lastRun' = CreateRun(raw, "created", "")
        /\ UNCHANGED <<session, enhancedOnly, testsStarted, shuffleVars>>

\* testBtn click listener of the basic script
BasicTestClick(via, s) ==
    /\ variant = "basic"
    /\ Delivered(via)
    /\ IF currentDrug = Null
       THEN /\ lastRun' = Run("test", via, <<>>, "NoDrug", FALSE, "")
            /\ UNCHANGED <<resultOutput, testsStarted>>
       ELSE /\ testsStarted < MaxTests
            /\ LET testResults == simulateDrugTesting(currentDrug[1], Stream(s, 6))
               IN  resultOutput' =
                       Append(resultOutput,
                              [kind |-> "test", text |-> <<testResults.sideEffects>>])
            /\ testsStarted' = testsStarted + 1
            /\ lastRun' = Run("test", via, <<>>, "tested", TRUE, "")
    /\ UNCHANGED <<session, currentDrug, testBtnDisabled, enhancedOnly, shuffleVars>>

(* ----------------------------- enhanced -------------------------------- *)

EnhancedCreateClickNoGuard(raw, s) ==
    LET input == Trim(raw)
        made == simulateDrugCreation("enhanced", input, Stream(s, 8), tfShuffleReturns)
    IN  /\ variant = "enhanced"
        /\ IF made = Null
           THEN /\ lastRun' = CreateRun(raw, "threw", "")
                /\ UNCHANGED <<currentDrug, propertiesList, step>>
           ELSE /\ currentDrug' = made
                /\ propertiesList' = made
                /\ step' = 1
                /\ lastRun' = CreateRun(raw, "created", "")
        /\ UNCHANGED <<session, model, testBtnDisabled, spinnerHidden, resultOutput,
                       barChart, radarChart, pending, trainCalls, testsStarted,
                       shuffleVars>>

\* createBtn click listener of the enhanced script.  A TypeError out of
\* simulateDrugCreation ends the listener before currentDrug is assigned.
EnhancedCreateClick(raw, s) ==
    LET input == Trim(raw)
        made == simulateDrugCreation("enhanced", input, Stream(s, 8), tfShuffleReturns)
    IN  /\ variant = "enhanced"
        /\ IF input = <<>>
           THEN /\ lastRun' = CreateRun(raw, "EmptyInput", EmptyInputAlert)
                /\ UNCHANGED <<currentDrug, propertiesList, step>>
           ELSE IF made = Null
           THEN /\ lastRun' = CreateRun(raw, "threw", "")
                /\ UNCHANGED <<currentDrug, propertiesList, step>>
           ELSE /\ currentDrug' = made
                /\ propertiesList' = made
                /\ step' = 1
                /\ lastRun' = CreateRun(raw, "created", "")
        /\ UNCHANGED <<session, model, testBtnDisabled, spinnerHidden, resultOutput,
                       barChart, radarChart, pending, trainCalls, testsStarted,
                       shuffleVars>>

\* nextToTestBtn click listener
NextToTestClick ==
    /\ variant = "enhanced"
    /\ step' = 2
    /\ lastRun' = Run("next", "control", <<>>, "shown", FALSE, "")
    /\ UNCHANGED <<session, currentDrug, model, testBtnDisabled, spinnerHidden,
                   propertiesList, resultOutput, barChart, radarChart, pending,
                   trainCalls, testsStarted, shuffleVars>>

\* Lines 76-83 of the test listener, run with instance m in `model`: encode,
\* predict, hide the spinner, render both charts.  Reading .structure off a
\* null currentDrug throws and ends the listener there, the spinner left as
\* it was (`shown` is spinnerHidden on entry to line 76).
PredictAndRender(m, handler, via, shown) ==
    IF currentDrug = Null
    THEN /\ lastRun' = Run(handler, via, <<>>, "TypeError", handler = "resume", "")
         /\ spinnerHidden' = shown
         /\ UNCHANGED <<barChart, radarChart>>
    ELSE /\ barChart' = <<modelPredict(m, encodeMolecule(currentDrug[1].structure))>>
         /\ spinnerHidden' = TRUE
         /\ radarChart' = <<currentDrug[1].sideEffects>>
         /\ lastRun' = Run(handler, via, <<>>, "rendered", TRUE, "")

EnhancedTestClickRetrains(via) ==
    /\ variant = "enhanced"
    /\ Delivered(via)
    /\ testsStarted < MaxTests
    /\ testsStarted' = testsStarted + 1
    /\ testBtnDisabled' = TRUE
    /\ trainCalls' = trainCalls + 1
    /\ pending' = pending \cup {[mdl |-> trainCalls + 1, drugAtClick |-> currentDrug]}
    /\ spinnerHidden' = FALSE
    /\ lastRun' = Run("test", via, <<>>, "suspended", TRUE, "")
    /\ UNCHANGED <<model, barChart, radarChart>>
    /\ UNCHANGED <<session, currentDrug, step, propertiesList, resultOutput, shuffleVars>>

\* testBtn click listener of the enhanced script, up to its await (or to its
\* end when model is already set and nothing is awaited).  buildAndTrainModel
\* builds a new instance and suspends the listener at `await mdl.fit`; the
\* suspended listener is kept in `pending` with the instance it will assign
\* and the Drug that was current at the click.
EnhancedTestClick(via) ==
    /\ variant = "enhanced"
    /\ Delivered(via)
    /\ testsStarted < MaxTests
    /\ testsStarted' = testsStarted + 1
    /\ testBtnDisabled' = TRUE
    /\ IF model = 0
       THEN /\ trainCalls' = trainCalls + 1
            /\ pending' = pending \cup
                   {[mdl |-> trainCalls + 1, drugAtClick |-> currentDrug]}
            /\ spinnerHidden' = FALSE
            /\ lastRun' = Run("test", via, <<>>, "suspended", TRUE, "")
            /\ UNCHANGED <<model, barChart, radarChart>>
       ELSE /\ PredictAndRender(model, "test", via, FALSE)
            /\ UNCHANGED <<model, pending, trainCalls>>
    /\ UNCHANGED <<session, currentDrug, step, propertiesList, resultOutput, shuffleVars>>

TrainDoneReenables(p) ==
    /\ variant = "enhanced"
    /\ p \in pending
    /\ pending' = pending \ {p}
    /\ model' = p.mdl
    /\ PredictAndRender(p.mdl, "resume", "none", spinnerHidden)
    /\ testBtnDisabled' = FALSE
    /\ UNCHANGED <<session, currentDrug, step, propertiesList, resultOutput,
                   trainCalls, testsStarted, shuffleVars>>

\* Resumption of a suspended test listener: `model = await buildAndTrainModel()`
\* assigns the trained instance, then lines 76-83 run.
TrainDone(p) ==
    /\ variant = "enhanced"
    /\ p \in pending
    /\ pending' = pending \ {p}
    /\ model' = p.mdl
    /\ PredictAndRender(p.mdl, "resume", "none", spinnerHidden)
    /\ UNCHANGED <<session, currentDrug, step, testBtnDisabled, propertiesList,
                   resultOutput, trainCalls, testsStarted, shuffleVars>>

Vias == {"control", "script"}
Streams == 0..(RandRes - 1)

Next ==
    \/ \E raw \in Inputs : BasicCreateClick(raw)
    \/ \E via \in Vias, s \in Streams : BasicTestClick(via, s)
    \/ \E raw \in Inputs, s \in Streams : EnhancedCreateClick(raw, s)
    \/ NextToTestClick
    \/ \E via \in Vias : EnhancedTestClick(via)
    \/ \E p \in pending : TrainDone(p)

Spec == Init /\ [][Next]_vars

-----------------------------------------------------------------------------
(* shuffle-and-take on its own: every outcome of the draws *)

\* A call of shuffleArray(possibleEffects).slice(0, 2) (basic) or of
\* pickRandom([...], 3) (enhanced) with one sequence of Math.random() draws.
ShuffleCalls(v) ==
    IF v = "basic"
    THEN {[arr |-> BasicEffects, n |-> BasicTake, rs |-> rs] :
             rs \in FineDraws(Len(BasicEffects) - 1)}
    ELSE {[arr |-> EnhancedEffects, n |-> EnhancedTake, rs |-> rs] :
             rs \in FineDraws(Len(EnhancedEffects) - 1)}

InitShuffle ==
    /\ \E v \in {"basic", "enhanced"} :
          /\ SessionInit(v)
          /\ \E c \in ShuffleCalls(v) : shuffleIn = <<c>>
    /\ shuffleOut = Null

sessionVars == <<variant, tfShuffleReturns, currentDrug, model, step, testBtnDisabled,
                 spinnerHidden, propertiesList, resultOutput, barChart, radarChart,
                 pending, trainCalls, testsStarted, lastRun>>

\* shuffleArray(possibleEffects).slice(0, 2) in simulateDrugTesting
CallShuffleArray ==
    /\ variant = "basic"
    /\ shuffleOut = Null
    /\ LET c == shuffleIn[1]
           sh == shuffleArray(c.arr, c.rs)
       IN  shuffleOut' = <<[ret |-> <<Slice0(sh.ret[1], c.n)>>, arr |-> sh.arr]>>
    /\ UNCHANGED <<sessionVars, shuffleIn>>

\* pickRandom([...], 3) in simulateDrugCreation
CallPickRandom ==
    /\ variant = "enhanced"
    /\ shuffleOut = Null
    /\ LET c == shuffleIn[1]
       IN  shuffleOut' = <<pickRandom(c.arr, c.n, c.rs, tfShuffleReturns)>>
    /\ UNCHANGED <<sessionVars, shuffleIn>>

NextShuffle == CallShuffleArray \/ CallPickRandom

SpecShuffle == InitShuffle /\ [][NextShuffle]_vars

-----------------------------------------------------------------------------
(* Properties *)

IsTestRun == lastRun'.handler = "test"
IsCreateRun == lastRun'.handler = "create"

\* the number of test results shown in the basic output panel
TestSegments == Cardinality({i \in 1..Len(resultOutput) : resultOutput[i].kind = "test"})

\* C1: in both variants a test action triggered while currentDrug is null
\* leaves currentDrug, the model handle, the test control's disabled flag, the
\* busy indicator and the output unchanged and does not invoke the Prediction
\* Engine (simulateDrugTesting, buildAndTrainModel, model.predict).
C1_TestWithoutDrugIsNoOp ==
    [][(IsTestRun /\ currentDrug = Null) =>
          /\ UNCHANGED <<currentDrug, model, testBtnDisabled, spinnerHidden,
                         resultOutput, barChart, radarChart>>
          /\ trainCalls' = trainCalls
          /\ ~lastRun'.engine]_vars

\* C1, the basic script alone: its guard `if (!currentDrug) return` makes the
\* test listener a no-op without a Drug.
C1_BasicGuardHolds ==
    [][(variant = "basic" /\ IsTestRun /\ currentDrug = Null) =>
          /\ UNCHANGED <<currentDrug, model, testBtnDisabled, spinnerHidden,
                         resultOutput, barChart, radarChart, trainCalls>>
          /\ ~lastRun'.engine]_vars

\* C2: in both variants a create action on an empty or whitespace-only input
\* shows a warning (an alert in the enhanced script, the warning text in the
\* basic output panel) and leaves currentDrug, the displayed step and the
\* test control's disabled flag as they were.
C2_EmptyInputAborts ==
    [][(IsCreateRun /\ lastRun'.blank) =>
          /\ UNCHANGED <<currentDrug, step, testBtnDisabled>>
          /\ variant = "enhanced" => lastRun'.alert = EmptyInputAlert
          /\ variant = "basic" => resultOutput' = <<[kind |-> "warning", text |-> <<>>]>>
      ]_vars

\* C2 witness: a blank create in the Testing step with a Drug present kept both
C2_Witness ==
    /\ variant = "enhanced"
    /\ lastRun.handler = "create" /\ lastRun.blank
    /\ lastRun.alert = EmptyInputAlert
    /\ currentDrug # Null
    /\ step = 2

IsTakeOf(ret, arr, n) ==
    /\ ret # Null
    /\ Len(ret[1]) = n
    /\ \A i \in 1..n : \E k \in 1..Len(arr) : ret[1][i] = arr[k]
    /\ \A i, j \in 1..n : i # j => ret[1][i] # ret[1][j]

\* C5: for every outcome of the random draws shuffle-and-take returns exactly
\* n pairwise distinct elements of the vocabulary (2 of 5 through shuffleArray
\* in the basic script, 3 of 6 through pickRandom in the enhanced script), and
\* shuffleArray leaves its argument unmodified.
C5_ShuffleAndTake ==
    shuffleOut # Null =>
        /\ IsTakeOf(shuffleOut[1].ret, shuffleIn[1].arr, shuffleIn[1].n)
        /\ variant = "basic" => shuffleOut[1].arr = shuffleIn[1].arr

\* C5, the basic script alone: shuffleArray(...).slice(0, 2)
C5_BasicShuffleAndTake ==
    (variant = "basic" /\ shuffleOut # Null) =>
        /\ IsTakeOf(shuffleOut[1].ret, shuffleIn[1].arr, shuffleIn[1].n)
        /\ shuffleOut[1].arr = shuffleIn[1].arr

\* C5, pickRandom when tf.util.shuffle hands the shuffled array back
C5_PickRandomGivenArray ==
    (variant = "enhanced" /\ tfShuffleReturns = "array" /\ shuffleOut # Null) =>
        IsTakeOf(shuffleOut[1].ret, shuffleIn[1].arr, shuffleIn[1].n)

C8_EncodedEntriesInUnitInterval ==
    (lastRun.outcome = "rendered") =>
        LET t == barChart[1].input
            str == currentDrug[1].structure
        IN  /\ Len(t) = 10
            /\ \A i \in 1..10 :
                  /\ 0 <= t[i] /\ t[i] <= NormDivisor
                  /\ t[i] = IF i <= Len(str) THEN str[i] ELSE 0

\* C9: after any sequence of create and test actions there is at most one live
\* TestResult: in the basic variant the output panel shows the result of at
\* most one test action.
C9_AtMostOneTestResultShown ==
    variant = "basic" => TestSegments <= 1

\* C9 as amended: there is at most one live Drug, bar chart and radar chart;
\* a create action replaces the previous Drug and, in the basic variant, the
\* whole output panel, which then shows that Drug; a basic test action
\* appends its result after it, so that the panel holds one create segment
\* followed by the results of all test actions since that create.
C9_CreateReplacesTestAppends ==
    /\ Len(currentDrug) <= 1 /\ Len(barChart) <= 1 /\ Len(radarChart) <= 1
    /\ variant = "basic" =>
          /\ \A i \in 2..Len(resultOutput) : resultOutput[i].kind = "test"
          /\ lastRun.handler = "create" => Len(resultOutput) = 1
          /\ currentDrug # Null =>
                /\ resultOutput # <<>>
                /\ resultOutput[1].kind = "drug" =>
                      resultOutput[1].text =
                          <<currentDrug[1].structure, currentDrug[1].description>>
    /\ (variant = "enhanced" /\ lastRun.outcome = "created") => propertiesList = currentDrug

\* C9 witness: the basic panel showing one Drug and two test results
C9_Witness ==
    /\ variant = "basic"
    /\ currentDrug # Null
    /\ Len(resultOutput) = 3
    /\ resultOutput[1].kind = "drug"
    /\ resultOutput[2].kind = "test" /\ resultOutput[3].kind = "test"

\* C10: in the enhanced variant, once a test action has started the test
\* control is disabled in every later state, also after the prediction has
\* completed and the spinner is hidden; a test action triggered through the
\* control is therefore the first test action of the session.
C10_TestControlStaysDisabled ==
    /\ [](variant = "enhanced" /\ testsStarted > 0 => testBtnDisabled)
    /\ [][(variant = "enhanced" /\ IsTestRun /\ testsStarted' # testsStarted
               /\ lastRun'.via = "control") => testsStarted = 0]_vars

\* C10 witness: prediction rendered, spinner hidden, control still disabled
C10_Witness ==
    /\ variant = "enhanced"
    /\ testsStarted > 0
    /\ pending = {}
    /\ lastRun.outcome = "rendered"
    /\ spinnerHidden
    /\ barChart # Null
    /\ testBtnDisabled

====
